---- MODULE Spec2Model ----
(***************************************************************************)
(* Grass-in-wind background (src/assets/js/grass-wind.js): the noise       *)
(* field, the gusts, the blades' angular physics, the wind composer and    *)
(* the frame loop of GrassWindBackground, as a state machine.              *)
(*                                                                         *)
(* JavaScript numbers are modelled as fixed-point values with three        *)
(* decimal digits (the integer v stands for v / Scale) together with the   *)
(* two non-finite kinds of IEEE-754 that the code can produce, NaN and     *)
(* +-Infinity.  Angles are therefore in milliradians, lengths in           *)
(* thousandths of a pixel and times in thousandths of a millisecond.       *)
(* Products and quotients truncate toward zero.                            *)
(***************************************************************************)
EXTENDS Integers, Sequences, FiniteSets

----------------------------------------------------------------------------
(* JavaScript Number arithmetic                                            *)

\* Fixed-point resolution: three decimal digits.
Scale == 10 * 10 * 10

\* Math.PI, in units of 1 / Scale.
PI == 3142

Fin(n) == [k |-> "fin", v |-> n]
NaN == [k |-> "nan", v |-> 0]
PInf == [k |-> "inf", v |-> 1]
NInf == [k |-> "inf", v |-> -1]

\* A whole number of the source (a count, a pixel size, a literal).
Num(n) == Fin(n * Scale)

\* The values of JavaScript numbers.
FV == [k : {"fin", "nan", "inf"}, v : Int]

IsFinite(a) == a.k = "fin"
IsNaN(a) == a.k = "nan"

Abs(n) == IF n < 0 THEN -n ELSE n
Sgn(n) == IF n < 0 THEN -1 ELSE IF n > 0 THEN 1 ELSE 0

\* Integer quotient truncated toward zero.
TDiv(a, b) == Sgn(a) * Sgn(b) * (Abs(a) \div Abs(b))

\* |a * b| / Scale without forming the full product.
MulAbs(a, b) ==
  LET big == IF Abs(a) >= Abs(b) THEN Abs(a) ELSE Abs(b)
      small == IF Abs(a) >= Abs(b) THEN Abs(b) ELSE Abs(a)
  IN (big \div Scale) * small + ((big % Scale) * small) \div Scale

FNeg[a \in FV] == IF a.k = "nan" THEN NaN ELSE [a EXCEPT !.v = -a.v]

FAdd[a \in FV, b \in FV] ==
  IF a.k = "nan" \/ b.k = "nan" THEN NaN
  ELSE IF a.k = "inf" /\ b.k = "inf" THEN (IF a.v = b.v THEN a ELSE NaN)
  ELSE IF a.k = "inf" THEN a
  ELSE IF b.k = "inf" THEN b
  ELSE Fin(a.v + b.v)

FSub[a \in FV, b \in FV] == FAdd[a, FNeg[b]]

FMul[a \in FV, b \in FV] ==
  IF a.k = "nan" \/ b.k = "nan" THEN NaN
  ELSE IF a.k = "inf" \/ b.k = "inf"
       THEN (IF a.v = 0 \/ b.v = 0 THEN NaN
             ELSE IF Sgn(a.v) = Sgn(b.v) THEN PInf ELSE NInf)
  ELSE Fin(Sgn(a.v) * Sgn(b.v) * MulAbs(a.v, b.v))

FDiv[a \in FV, b \in FV] ==
  IF a.k = "nan" \/ b.k = "nan" THEN NaN
  ELSE IF a.k = "inf" /\ b.k = "inf" THEN NaN
  ELSE IF a.k = "inf"
       THEN (IF Sgn(a.v) * (IF b.v < 0 THEN -1 ELSE 1) > 0 THEN PInf ELSE NInf)
  ELSE IF b.k = "inf" THEN Fin(0)
  ELSE IF b.v = 0
       THEN (IF a.v = 0 THEN NaN ELSE IF a.v > 0 THEN PInf ELSE NInf)
  ELSE Fin(TDiv(a.v * Scale, b.v))

\* Comparisons: every comparison with NaN is false.
FLt[a \in FV, b \in FV] ==
  /\ a.k # "nan" /\ b.k # "nan"
  /\ IF a.k = "inf" THEN a.v < 0 /\ b # a
     ELSE IF b.k = "inf" THEN b.v > 0
     ELSE a.v < b.v

FGt[a \in FV, b \in FV] == FLt[b, a]
FLe[a \in FV, b \in FV] == a.k # "nan" /\ b.k # "nan" /\ ~FLt[b, a]
FGe[a \in FV, b \in FV] == FLe[b, a]

\* Math.max / Math.min: NaN when either argument is NaN.
FMax[a \in FV, b \in FV] ==
  IF a.k = "nan" \/ b.k = "nan" THEN NaN ELSE IF FLt[a, b] THEN b ELSE a

FMin[a \in FV, b \in FV] ==
  IF a.k = "nan" \/ b.k = "nan" THEN NaN ELSE IF FLt[b, a] THEN b ELSE a

\* Math.floor / Math.ceil: NaN and +-Infinity are returned unchanged.
FFloor[a \in FV] == IF a.k # "fin" THEN a ELSE Fin((a.v \div Scale) * Scale)
FCeil[a \in FV] == IF a.k # "fin" THEN a ELSE Fin(-(((-a.v) \div Scale) * Scale))

SqrtIter[n \in Nat, x \in Nat] ==
  LET y == (x + n \div x) \div 2
  IN IF y >= x THEN x ELSE SqrtIter[n, y]

\* Largest r with r * r <= n.
ISqrt(n) == IF n <= 0 THEN 0 ELSE SqrtIter[n, n]

\* Math.sqrt.
FSqrt[a \in FV] ==
  IF a.k = "nan" THEN NaN
  ELSE IF a.k = "inf" THEN (IF a.v > 0 THEN PInf ELSE NaN)
  ELSE IF a.v < 0 THEN NaN
  ELSE IF a.v > 2000 * Scale THEN Fin(100 * ISqrt(a.v \div 10))
  ELSE Fin(ISqrt(a.v * Scale))

\* sin on [0, PI] (Bhaskara's rational approximation, exact at 0, PI/2, PI).
SinHalf(x) ==
  LET p == x * (PI - x)
  IN (16 * p) \div ((5 * PI * PI - 4 * p) \div Scale)

\* Math.sin: NaN for a non-finite argument.
FSin[a \in FV] ==
  IF a.k # "fin" THEN NaN
  ELSE LET x == a.v % (2 * PI)
       IN Fin(IF x <= PI THEN SinHalf(x) ELSE -SinHalf(x - PI))

\* Math.cos.
FCos[a \in FV] == FSin[FAdd[a, Fin(PI \div 2)]]

\* atan on [0, 1]: z * (PI/4 + 0.273 * (1 - z)).
AtanUnit(z) == (z * (PI \div 4 + (273 * (Scale - z)) \div Scale)) \div Scale

\* Math.atan2(y, x) for finite arguments; NaN when either is NaN.
FAtan2[y \in FV, x \in FV] ==
  IF y.k = "nan" \/ x.k = "nan" THEN NaN
  ELSE IF y.k = "inf" \/ x.k = "inf"
       THEN (IF y.k = "inf" /\ x.k = "inf"
               THEN Fin(y.v * (IF x.v > 0 THEN PI \div 4 ELSE 3 * (PI \div 4)))
             ELSE IF y.k = "inf" THEN Fin(y.v * (PI \div 2))
             ELSE IF x.v > 0 THEN Fin(0)
             ELSE Fin(IF y.v < 0 THEN -PI ELSE PI))
  ELSE IF y.v = 0 /\ x.v = 0 THEN Fin(0)
  ELSE LET ay == Abs(y.v)
           ax == Abs(x.v)
           base == IF ay <= ax
                     THEN AtanUnit((ay * Scale) \div ax)
                     ELSE PI \div 2 - AtanUnit((ax * Scale) \div ay)
           half == IF x.v >= 0 THEN base ELSE PI - base
       IN Fin(IF y.v < 0 THEN -half ELSE half)

----------------------------------------------------------------------------
(* Configuration                                                           *)

\* The literal a / b of the source, for whole a and b.
Dec(a, b) == Fin((a * Scale) \div b)

DEFAULTS ==
  [ gridColumnsDesktop |-> Num(30),
    gridColumnsMobile |-> Num(10),
    mobileBreakpoint |-> Num(768),
    bladesPerCell |-> Num(1),
    bladeLength |-> [min |-> Num(8), max |-> Num(20)],
    stiffness |-> Dec(15, 1000),
    damping |-> Dec(85, 100),
    maxBend |-> FMul[Fin(PI), Num(2)],
    fieldScale |-> Dec(3, 1000),
    fieldStrength |-> Dec(15, 100),
    fieldSpeed |-> Num(1),
    gustFrequency |-> Dec(2, 10),
    gustStrength |-> Dec(8, 10),
    gustRadius |-> Num(200),
    gustDuration |-> Num(3000),
    mouseStrength |-> Dec(5, 10),
    mouseRadius |-> Num(150),
    mouseSmoothing |-> Dec(15, 100),
    reducedMotion |-> FALSE,
    reducedMotionFPS |-> Num(5) ]

\* The merge that lets a user's value win only when it is truthy.
MergeTruthy(defaults, userOptions) ==
  [key \in DOMAIN defaults \cup DOMAIN userOptions |->
     IF /\ key \in DOMAIN userOptions
        /\ IF key = "reducedMotion" THEN userOptions[key]
                                     ELSE userOptions[key] # Num(0)
       THEN userOptions[key]
       ELSE IF key \in DOMAIN defaults THEN defaults[key] ELSE userOptions[key]]

\* { ...DEFAULTS, ...userOptions }
Merge(defaults, userOptions) ==
  [key \in DOMAIN defaults \cup DOMAIN userOptions |->
     IF key \in DOMAIN userOptions THEN userOptions[key] ELSE defaults[key]]

----------------------------------------------------------------------------
(* Utility functions                                                       *)

\* const x = e; body -- the value of Body(x) with x the value of e, which is
\* computed once.
Let(e, Body(_)) == CHOOSE r \in { Body(x) : x \in {e} } : TRUE

\* The scaled sine of noise2D, without taking its fractional part.
noise2DWhole(x, y, seed) ==
  FMul[FSin[FAdd[FAdd[FMul[x, Fin(12990)], FMul[y, Fin(78233)]], seed]],
       Fin(43758545)]

\* noise2D(x, y, seed): the fractional part of a scaled sine.
noise2D(x, y, seed) ==
  Let(FMul[FSin[FAdd[FAdd[FMul[x, Fin(12990)], FMul[y, Fin(78233)]], seed]],
           Fin(43758545)], LAMBDA n :
  FSub[n, FFloor[n]])

\* smoothNoise(x, y, scale, seed): smoothstep-weighted bilinear blend of the
\* four lattice corners around (x * scale, y * scale).
smoothNoise(x, y, scale, seed) ==
  Let(FMul[x, scale], LAMBDA sx :
  Let(FMul[y, scale], LAMBDA sy :
  Let(FFloor[sx], LAMBDA x0 :
  Let(FFloor[sy], LAMBDA y0 :
  Let(FAdd[x0, Num(1)], LAMBDA x1 :
  Let(FAdd[y0, Num(1)], LAMBDA y1 :
  Let(FSub[sx, x0], LAMBDA fx :
  Let(FSub[sy, y0], LAMBDA fy :
  Let(FMul[FMul[fx, fx], FSub[Num(3), FMul[Num(2), fx]]], LAMBDA u :
  Let(FMul[FMul[fy, fy], FSub[Num(3), FMul[Num(2), fy]]], LAMBDA v :
  Let(noise2D(x0, y0, seed), LAMBDA n00 :
  Let(noise2D(x1, y0, seed), LAMBDA n10 :
  Let(noise2D(x0, y1, seed), LAMBDA n01 :
  Let(noise2D(x1, y1, seed), LAMBDA n11 :
  Let(FAdd[FMul[n00, FSub[Num(1), u]], FMul[n10, u]], LAMBDA nx0 :
  Let(FAdd[FMul[n01, FSub[Num(1), u]], FMul[n11, u]], LAMBDA nx1 :
  FAdd[FMul[nx0, FSub[Num(1), v]], FMul[nx1, v]]))))))))))))))))

\* smoothstep(edge0, edge1, x)
smoothstep(edge0, edge1, x) ==
  Let(FMax[Num(0), FMin[Num(1), FDiv[FSub[x, edge0], FSub[edge1, edge0]]]],
      LAMBDA t :
  FMul[FMul[t, t], FSub[Num(3), FMul[Num(2), t]]])

----------------------------------------------------------------------------
(* GrassBlade                                                              *)

\* new GrassBlade(x, y, length, config); random is the Math.random() draw
\* of the initial angle, id the identity of the new object.
NewBlade(x, y, length, cfg, random, id) ==
  [ rootX |-> x, rootY |-> y, length |-> length,
    angle |-> FMul[FMul[FSub[random, Dec(1, 2)], cfg.maxBend], Num(2)],
    velocity |-> Num(0),
    id |-> id ]

\* The velocity after the torque of GrassBlade.update: the wind pushes only
\* when its magnitude is above 0.001.
Pushed(blade, cfg, windX, windY, windMagnitude) ==
  IF FGt[windMagnitude, Fin(1)]
    THEN LET windAngle == FAtan2[windX, FNeg[windY]]
             angleDiff == FSub[windAngle, blade.angle]
             torque == FMul[FMul[FSin[angleDiff], windMagnitude], cfg.stiffness]
         IN FAdd[blade.velocity, torque]
    ELSE blade.velocity

\* GrassBlade.update without its clamp.
Unclamped(cfg, angle) == angle

\* The clamp of GrassBlade.update.
Clamp(cfg, angle) == FMax[FNeg[cfg.maxBend], FMin[cfg.maxBend, angle]]

\* GrassBlade.update without the damping of the velocity.
BladeUpdateUndamped(blade, cfg, windX, windY) ==
  Let(FSqrt[FAdd[FMul[windX, windX], FMul[windY, windY]]], LAMBDA windMagnitude :
  Let(Pushed(blade, cfg, windX, windY, windMagnitude), LAMBDA velocity :
  [blade EXCEPT !.velocity = velocity,
                !.angle = Clamp(cfg, FAdd[blade.angle, velocity])]))

\* GrassBlade.update with the angle integrated before the damping.
BladeUpdateDampedLate(blade, cfg, windX, windY) ==
  Let(FSqrt[FAdd[FMul[windX, windX], FMul[windY, windY]]], LAMBDA windMagnitude :
  Let(Pushed(blade, cfg, windX, windY, windMagnitude), LAMBDA velocity :
  [blade EXCEPT !.velocity = FMul[velocity, cfg.damping],
                !.angle = Clamp(cfg, FAdd[blade.angle, velocity])]))

\* GrassBlade.update(windX, windY)
BladeUpdate(blade, cfg, windX, windY) ==
  Let(FSqrt[FAdd[FMul[windX, windX], FMul[windY, windY]]], LAMBDA windMagnitude :
  Let(FMul[Pushed(blade, cfg, windX, windY, windMagnitude), cfg.damping],
      LAMBDA velocity :
  [blade EXCEPT !.velocity = velocity,
                !.angle = Clamp(cfg, FAdd[blade.angle, velocity])]))

----------------------------------------------------------------------------
(* Gust                                                                    *)

\* new Gust(x, y, config) at Date.now() = at; random is the Math.random()
\* draw of the direction.
NewGust(x, y, cfg, at, random) ==
  Let(FMul[FMul[random, Fin(PI)], Num(2)], LAMBDA angle :
  [ x |-> x, y |-> y,
    birthTime |-> Num(at),
    duration |-> cfg.gustDuration,
    angle |-> angle,
    dirX |-> FCos[angle],
    dirY |-> FSin[angle] ])

\* Gust.isAlive() with <= for <.
GustIsAliveInclusive(gust, at) ==
  FLe[FSub[Num(at), gust.birthTime], gust.duration]

\* Gust.isAlive() at Date.now() = at
GustIsAlive(gust, at) ==
  FLt[FSub[Num(at), gust.birthTime], gust.duration]

\* The time envelope without its rise: the decay alone.
DecayEnvelope(gust, at) ==
  Let(FDiv[FSub[Num(at), gust.birthTime], gust.duration], LAMBDA t :
  FSub[Num(1), smoothstep(Dec(7, 10), Num(1), t)])

\* The time envelope of Gust.getForce at Date.now() = at.
TimeEnvelope(gust, at) ==
  Let(FDiv[FSub[Num(at), gust.birthTime], gust.duration], LAMBDA t :
  FMul[smoothstep(Num(0), Dec(2, 10), t),
       FSub[Num(1), smoothstep(Dec(7, 10), Num(1), t)]])

\* Gust.getForce without the early return beyond the radius.
GustForceEverywhere(gust, cfg, x, y, at) ==
  Let(FSub[x, gust.x], LAMBDA dx :
  Let(FSub[y, gust.y], LAMBDA dy :
  Let(FSqrt[FAdd[FMul[dx, dx], FMul[dy, dy]]], LAMBDA dist :
  Let(FSub[Num(1), FDiv[dist, cfg.gustRadius]], LAMBDA distFalloff :
  Let(FMul[FMul[cfg.gustStrength, distFalloff], TimeEnvelope(gust, at)],
      LAMBDA strength :
  [x |-> FMul[gust.dirX, strength], y |-> FMul[gust.dirY, strength]])))))

\* Gust.getForce(x, y) at Date.now() = at
GustGetForce(gust, cfg, x, y, at) ==
  Let(FSub[x, gust.x], LAMBDA dx :
  Let(FSub[y, gust.y], LAMBDA dy :
  Let(FSqrt[FAdd[FMul[dx, dx], FMul[dy, dy]]], LAMBDA dist :
  IF FGt[dist, cfg.gustRadius]
    THEN [x |-> Num(0), y |-> Num(0)]
    ELSE Let(FSub[Num(1), FDiv[dist, cfg.gustRadius]], LAMBDA distFalloff :
         Let(FMul[FMul[cfg.gustStrength, distFalloff], TimeEnvelope(gust, at)],
             LAMBDA strength :
         [x |-> FMul[gust.dirX, strength], y |-> FMul[gust.dirY, strength]])))))

----------------------------------------------------------------------------
(* GrassWindBackground: state                                              *)

VARIABLES
  config,            \* this.config
  width, height,     \* this.width, this.height
  blades,            \* this.blades
  gusts,             \* this.gusts
  time,              \* this.time
  animationFrame,    \* this.animationFrame: a handle, or 0 for null
  lastFrameTime,     \* this.lastFrameTime
  mouse,             \* mouseX, mouseY, lastMouseX, lastMouseY, mouseVelX,
                     \* mouseVelY, smoothMouseVelX, smoothMouseVelY, isMouseOver
  dom,               \* the page: the container's box, whether the canvas is in
                     \* it, the listeners on it, the observer, the pointer
  raf,               \* the browser's animation-frame queue and its clock
  now,               \* Date.now(), in ms
  hung,              \* a call has entered a loop it never leaves
  log,               \* what has run: frames, updates, renders, resizes, ...
  call,              \* the last direct call of a method or function under
                     \* observation: its name, arguments and result
  typing             \* one typewriter of the page: the closure variables of
                     \* createTypewriter, its element's text, its timer

vars == << config, width, height, blades, gusts, time, animationFrame,
           lastFrameTime, mouse, dom, raf, now, hung, log, call, typing >>

----------------------------------------------------------------------------
(* Bounds of the exploration                                               *)

MaxFrames == 2
MaxEvents == 2

\* A frame callback comes dt ms after the previous one, and Date.now()
\* advances by mid ms between the reaping of the gusts and the sampling of
\* the wind inside its update: the pairs << dt, mid >> explored.
FrameSteps == { <<1, 0>>, <<2, 1>> }

\* Container boxes (width, height), in pixels.
Boxes == { <<0, 0>>, <<0, 2>>, <<2, 0>>, <<2, 2>>, <<4, 2>> }

\* Pointer positions relative to the container, in pixels.
PointerAt == { <<1, 1>>, <<2, 1>> }

\* The Math.random() draws of one blade: its length, then its angle.
BladeDraws == { << Dec(1, 2), Dec(1, 2) >>, << Fin(999), Fin(999) >> }

\* The Math.random() draws of one update, in call order: the spawn trial,
\* edge or interior, then (edge) the edge and the coordinate along it or
\* (interior) x and y, then the direction of the new gust.
UpdateDraws ==
  { << Fin(999), Fin(0), Fin(0), Fin(0), Fin(0) >>,
    << Fin(0), Fin(999), Dec(1, 2), Dec(1, 2), Dec(1, 2) >> }

\* Options every explored instance overrides: a grid small enough to
\* enumerate, and physics fast enough to bend a blade in a few frames.
SmallOptions ==
  [ gridColumnsDesktop |-> Num(2),
    gridColumnsMobile |-> Num(1),
    mobileBreakpoint |-> Num(2),
    stiffness |-> Num(2),
    damping |-> Dec(1, 2),
    gustRadius |-> Num(4),
    gustDuration |-> Num(4),
    mouseRadius |-> Num(4),
    reducedMotionFPS |-> Num(500) ]

\* The constructions explored: the userOptions, whether the page prefers
\* reduced motion, and the container's box.
Construction(options, prefers, box) ==
  [options |-> options, prefersReducedMotion |-> prefers, box |-> box]

Constructions ==
  { Construction(SmallOptions, FALSE, <<2, 2>>),
    Construction(SmallOptions, TRUE, <<2, 2>>) }
  \cup
  { Construction(Merge(SmallOptions, degenerate), FALSE, <<2, 2>>) :
      degenerate \in { [gustRadius |-> Num(0)],
                       [gustDuration |-> Num(0)],
                       [mouseRadius |-> Num(0)] } }

----------------------------------------------------------------------------
(* GrassWindBackground: layout                                             *)

\* How often the body of  for (i = 0; i < limit; i++)  runs; -1 when the
\* loop never ends (limit is Infinity).
LoopCount(limit) ==
  IF limit.k = "nan" THEN 0
  ELSE IF limit.k = "inf" THEN (IF limit.v > 0 THEN -1 ELSE 0)
  ELSE IF limit.v <= 0 THEN 0
  ELSE -((-limit.v) \div Scale)

\* The grid of setupBlades for a canvas of w by h.
Grid(w, h, cfg) ==
  LET isMobile == FLe[w, cfg.mobileBreakpoint]
      columns == IF isMobile THEN cfg.gridColumnsMobile ELSE cfg.gridColumnsDesktop
      cellSize == FDiv[w, columns]
      rows == FCeil[FDiv[h, cellSize]]
  IN [ columns |-> columns, cellSize |-> cellSize, rows |-> rows,
       rowCount |-> LoopCount(rows),
       colCount |-> LoopCount(columns),
       perCell |-> LoopCount(cfg.bladesPerCell) ]

\* setupBlades never returns: the row loop has no end.
GridDiverges(grid) == grid.rowCount < 0

\* The number of cells of the grid.
GridCells(grid) == grid.rowCount * grid.colCount

\* The number of blades setupBlades pushes.
GridCount(grid) == grid.rowCount * grid.colCount * grid.perCell

\* The blades setupBlades pushes, in push order; draws[i] are the
\* Math.random() draws of blade i and firstId the identity of the first.
SetupBlades(grid, cfg, draws, firstId) ==
  [ i \in 1..GridCount(grid) |->
      LET cell == (i - 1) \div grid.perCell
          col == cell % grid.colCount
          row == cell \div grid.colCount
          half == FDiv[grid.cellSize, Num(2)]
          x == FAdd[FMul[Num(col), grid.cellSize], half]
          y == FAdd[FMul[Num(row), grid.cellSize], half]
          length == FAdd[cfg.bladeLength.min,
                         FMul[draws[i][1],
                              FSub[cfg.bladeLength.max, cfg.bladeLength.min]]]
      IN NewBlade(x, y, length, cfg, draws[i][2], firstId + i - 1) ]

----------------------------------------------------------------------------
(* GrassWindBackground: wind                                               *)

Vec(x, y) == [x |-> x, y |-> y]

RECURSIVE GustSum(_, _, _, _, _, _, _)
\* The loop over this.gusts in getWindForce, from gust i on, added to wind;
\* Date.now() = at.
GustSum(gs, i, cfg, x, y, at, wind) ==
  IF i > Len(gs) THEN wind
  ELSE Let(GustGetForce(gs[i], cfg, x, y, at), LAMBDA gustForce :
       Let(Vec(FAdd[wind.x, gustForce.x], FAdd[wind.y, gustForce.y]), LAMBDA sum :
       GustSum(gs, i + 1, cfg, x, y, at, sum)))

\* The pointer's term of getWindForce at (x, y).
MouseWind(m, cfg, x, y) ==
  Let(FSub[x, m.mouseX], LAMBDA dx :
  Let(FSub[y, m.mouseY], LAMBDA dy :
  Let(FSqrt[FAdd[FMul[dx, dx], FMul[dy, dy]]], LAMBDA dist :
  IF m.isMouseOver /\ FLt[dist, cfg.mouseRadius] /\ FGt[dist, Num(0)]
    THEN Let(FSub[Num(1), FDiv[dist, cfg.mouseRadius]], LAMBDA distFalloff :
         Let(FMul[distFalloff, cfg.mouseStrength], LAMBDA mouseForce :
         Vec(FMul[m.smoothMouseVelX, mouseForce],
             FMul[m.smoothMouseVelY, mouseForce])))
    ELSE Vec(Num(0), Num(0)))))

\* The ambient direction alone, not scaled by fieldStrength.
NoiseDirection(cfg, t, x, y) ==
  Let(smoothNoise(x, y, cfg.fieldScale, t), LAMBDA noiseValue :
  Let(FMul[FMul[noiseValue, Fin(PI)], Num(2)], LAMBDA noiseAngle :
  Vec(FCos[noiseAngle], FSin[noiseAngle])))

\* The ambient term of getWindForce at (x, y).
NoiseWind(cfg, t, x, y) ==
  Let(smoothNoise(x, y, cfg.fieldScale, t), LAMBDA noiseValue :
  Let(FMul[FMul[noiseValue, Fin(PI)], Num(2)], LAMBDA noiseAngle :
  Vec(FMul[FCos[noiseAngle], cfg.fieldStrength],
      FMul[FSin[noiseAngle], cfg.fieldStrength])))

\* getWindForce(x, y) with Date.now() = at
GetWindForce(cfg, t, gs, m, x, y, at) ==
  Let(NoiseWind(cfg, t, x, y), LAMBDA base :
  Let(GustSum(gs, 1, cfg, x, y, at, base), LAMBDA gusty :
  Let(MouseWind(m, cfg, x, y), LAMBDA pointer :
  Vec(FAdd[gusty.x, pointer.x], FAdd[gusty.y, pointer.y]))))

----------------------------------------------------------------------------
(* GrassWindBackground: one update                                         *)

\* The pointer fields after the velocity smoothing of update.
SmoothMouse(m, cfg) ==
  IF ~m.isMouseOver THEN m
  ELSE Let(FSub[m.mouseX, m.lastMouseX], LAMBDA velX :
       Let(FSub[m.mouseY, m.lastMouseY], LAMBDA velY :
       [m EXCEPT
          !.mouseVelX = velX,
          !.mouseVelY = velY,
          !.smoothMouseVelX = FAdd[@, FMul[FSub[velX, @], cfg.mouseSmoothing]],
          !.smoothMouseVelY = FAdd[@, FMul[FSub[velY, @], cfg.mouseSmoothing]]]))

\* The position of the gust update spawns for the draws d.
SpawnAt(d, cfg, w, h) ==
  Let(FLt[d[2], Dec(7, 10)], LAMBDA spawnFromEdge :
  Let(FFloor[FMul[d[3], Num(4)]], LAMBDA edge :
  IF ~spawnFromEdge THEN Vec(FMul[d[3], w], FMul[d[4], h])
  ELSE IF edge = Num(0)
    THEN Vec(FMul[d[4], w], FMul[FNeg[cfg.gustRadius], Dec(1, 2)])
  ELSE IF edge = Num(1)
    THEN Vec(FAdd[w, FMul[cfg.gustRadius, Dec(1, 2)]], FMul[d[4], h])
  ELSE IF edge = Num(2)
    THEN Vec(FMul[d[4], w], FAdd[h, FMul[cfg.gustRadius, Dec(1, 2)]])
  ELSE Vec(FMul[FNeg[cfg.gustRadius], Dec(1, 2)], FMul[d[4], h])))

\* A spawn that pushes two gusts when its trial succeeds.
SpawnTwice(d, cfg, w, h, at) ==
  IF ~FLt[d[1], cfg.gustFrequency] THEN << >>
  ELSE Let(SpawnAt(d, cfg, w, h), LAMBDA p :
       << NewGust(p.x, p.y, cfg, at, d[5]), NewGust(p.y, p.x, cfg, at, d[5]) >>)

\* The gusts update pushes (none or one) for the draws d, Date.now() = at.
SpawnGusts(d, cfg, w, h, at) ==
  IF ~FLt[d[1], cfg.gustFrequency] THEN << >>
  ELSE Let(SpawnAt(d, cfg, w, h), LAMBDA p :
       << NewGust(p.x, p.y, cfg, at, d[5]) >>)

\* update without its reaping: every gust stays.
KeepGusts(gs, at) == gs

\* this.gusts.filter(gust => gust.isAlive()) with Date.now() = at
ReapGusts(gs, at) == SelectSeq(gs, LAMBDA gust : GustIsAlive(gust, at))

\* A blade loop that runs every blade's update twice with the same wind.
UpdateBladesTwice(bs, cfg, t, gs, m, at) ==
  [ i \in 1..Len(bs) |->
      Let(bs[i], LAMBDA blade :
      Let(GetWindForce(cfg, t, gs, m, blade.rootX, blade.rootY, at), LAMBDA wind :
      BladeUpdate(BladeUpdate(blade, cfg, wind.x, wind.y), cfg, wind.x, wind.y))) ]

\* The blade loop of update: every blade samples the wind at its root and
\* runs its own update; Date.now() = at during the sampling.
UpdateBlades(bs, cfg, t, gs, m, at) ==
  [ i \in 1..Len(bs) |->
      Let(bs[i], LAMBDA blade :
      Let(GetWindForce(cfg, t, gs, m, blade.rootX, blade.rootY, at), LAMBDA wind :
      BladeUpdate(blade, cfg, wind.x, wind.y))) ]

\* A time that advances by fieldSpeed per frame, however long the frame.
AdvanceByFrame(t, cfg, deltaTime) == FAdd[t, cfg.fieldSpeed]

\* this.time += this.config.fieldSpeed * deltaTime
Advance(t, cfg, deltaTime) == FAdd[t, FMul[cfg.fieldSpeed, deltaTime]]

\* update(deltaTime) with the blade loop moved to its start: the blades
\* sample the wind of the previous frame.
UpdateBladesFirst(deltaTime, d, at, sampleAt) ==
  Let(Advance(time, config, deltaTime), LAMBDA t :
  Let(SmoothMouse(mouse, config), LAMBDA m :
  Let(ReapGusts(gusts \o SpawnGusts(d, config, width, height, at), at), LAMBDA gs :
  [ time |-> t, mouse |-> m, gusts |-> gs,
    blades |-> UpdateBlades(blades, config, time, gusts, mouse, sampleAt) ])))

\* update(deltaTime): the fields it writes.  d are its Math.random() draws,
\* at is Date.now() up to the reaping and sampleAt during the blade loop.
Update(deltaTime, d, at, sampleAt) ==
  Let(Advance(time, config, deltaTime), LAMBDA t :
  Let(SmoothMouse(mouse, config), LAMBDA m :
  Let(ReapGusts(gusts \o SpawnGusts(d, config, width, height, at), at), LAMBDA gs :
  [ time |-> t, mouse |-> m, gusts |-> gs,
    blades |-> UpdateBlades(blades, config, t, gs, m, sampleAt) ])))

\* render(): what the canvas shows, the root and the tip of every blade in
\* drawing order.
Render(bs) ==
  [ i \in 1..Len(bs) |->
      Let(bs[i], LAMBDA blade :
      [ rootX |-> blade.rootX, rootY |-> blade.rootY,
        tipX |-> FAdd[blade.rootX, FMul[FSin[blade.angle], blade.length]],
        tipY |-> FSub[blade.rootY, FMul[FCos[blade.angle], blade.length]] ]) ]

----------------------------------------------------------------------------
(* The browser                                                             *)

\* requestAnimationFrame: the queue with one more pending callback.
Request(r) == [r EXCEPT !.queue = @ \cup {r.next}, !.next = @ + 1]

\* cancelAnimationFrame(handle)
Cancel(r, handle) == [r EXCEPT !.queue = @ \ {handle}]

----------------------------------------------------------------------------
(* GrassWindBackground: construction                                       *)

NoBlades == << >>

MouseInit ==
  [ mouseX |-> Num(0), mouseY |-> Num(0),
    lastMouseX |-> Num(0), lastMouseY |-> Num(0),
    mouseVelX |-> Num(0), mouseVelY |-> Num(0),
    smoothMouseVelX |-> Num(0), smoothMouseVelY |-> Num(0),
    isMouseOver |-> FALSE ]

\* No typewriter is on the page.
NoTypewriter ==
  [ words |-> << >>, wordIndex |-> 0, isDeleting |-> FALSE,
    currentText |-> << >>, charIndex |-> 0, textContent |-> << >>,
    timeout |-> -1, started |-> FALSE ]

\* No method has been called directly.
NoCall == [fn |-> "none"]

LogInit ==
  [ frames |-> 0, updates |-> 0, renders |-> 0, resizes |-> 0,
    pointerEvents |-> 0, destroys |-> 0, bladesMade |-> 0 ]

\* The events handled so far.
Events == log.resizes + log.pointerEvents + log.destroys

\* new GrassWindBackground(container, userOptions), for one of the
\* constructions of `among`.
Construct(among) ==
  \E c \in among :
    LET box == c.box
        cfg == [Merge(DEFAULTS, c.options) EXCEPT
                  !.reducedMotion = c.prefersReducedMotion]
        grid == Grid(Num(box[1]), Num(box[2]), cfg)
        started == Request([queue |-> {}, next |-> 1, clock |-> 0])
    IN /\ config = cfg
       /\ width = Num(box[1])
       /\ height = Num(box[2])
       /\ gusts = << >>
       /\ time = Num(0)
       /\ lastFrameTime = Num(0)
       /\ mouse = MouseInit
       /\ now = 0
       /\ typing = NoTypewriter
       /\ call = [ fn |-> "GrassWindBackground", options |-> c.options,
                   prefersReducedMotion |-> c.prefersReducedMotion ]
       /\ IF GridDiverges(grid)
            THEN /\ hung = TRUE
                 /\ blades = NoBlades
                 /\ animationFrame = 0
                 /\ raf = [queue |-> {}, next |-> 1, clock |-> 0]
                 /\ dom = [ box |-> box, canvas |-> TRUE, listeners |-> {},
                            observing |-> FALSE, pointerInside |-> FALSE,
                            drawn |-> << >> ]
                 /\ log = LogInit
            ELSE /\ hung = FALSE
                 /\ \E draws \in [1..GridCount(grid) -> BladeDraws] :
                      blades = SetupBlades(grid, cfg, draws, 1)
                 /\ animationFrame = started.next - 1
                 /\ raf = started
                 /\ dom = [ box |-> box, canvas |-> TRUE,
                            listeners |-> {"mousemove", "mouseenter", "mouseleave"},
                            observing |-> TRUE, pointerInside |-> FALSE,
                            drawn |-> << >> ]
                 /\ log = [LogInit EXCEPT !.bladesMade = GridCount(grid)]

Init == Construct(Constructions)

----------------------------------------------------------------------------
(* GrassWindBackground: the frame callback                                 *)

\* A test that never finds its operand falsy.
Truthy(a) == FALSE

\* !this.lastFrameTime
Falsy(a) == a.k = "nan" \/ (a.k = "fin" /\ a.v = 0)

\* animate(currentTime), called by the browser for the pending callback
\* `handle`, dt ms after the previous frame; at most `limit` callbacks run.
AnimateFrame(limit) ==
  /\ ~hung
  /\ log.frames < limit
  /\ \E handle \in raf.queue, step \in FrameSteps, d \in UpdateDraws :
       LET dt == step[1]
           mid == step[2]
           currentTime == Num(raf.clock + dt)
           last == IF Falsy(lastFrameTime) THEN currentTime ELSE lastFrameTime
           deltaTime == FSub[currentTime, last]
           minFrameTime == FDiv[Num(1000), config.reducedMotionFPS]
           skip == config.reducedMotion /\ FLt[deltaTime, minFrameTime]
           again == Request([Cancel(raf, handle) EXCEPT !.clock = @ + dt])
       IN /\ raf' = again
          /\ animationFrame' = again.next - 1
          /\ IF skip
               THEN /\ lastFrameTime' = last
                    /\ now' = now + dt
                    /\ log' = [log EXCEPT !.frames = @ + 1]
                    /\ UNCHANGED << time, mouse, gusts, blades, dom >>
               ELSE /\ lastFrameTime' = currentTime
                    /\ now' = now + dt + mid
                    /\ \E after \in {Update(deltaTime, d, now + dt, now + dt + mid)} :
                         /\ time' = after.time
                         /\ mouse' = after.mouse
                         /\ gusts' = after.gusts
                         /\ blades' = after.blades
                         /\ dom' = [dom EXCEPT !.drawn = Render(after.blades)]
                    /\ log' = [log EXCEPT !.frames = @ + 1, !.updates = @ + 1,
                                          !.renders = @ + 1]
  /\ UNCHANGED << typing, config, width, height, hung >>

Animate == AnimateFrame(MaxFrames) /\ UNCHANGED call

----------------------------------------------------------------------------
(* GrassWindBackground: events                                             *)

\* The ResizeObserver callback: setupCanvas(), then setupBlades().
Resize ==
  /\ ~hung
  /\ dom.observing
  /\ Events < MaxEvents
  /\ \E box \in Boxes :
       LET grid == Grid(Num(box[1]), Num(box[2]), config)
       IN /\ dom' = [dom EXCEPT !.box = box, !.drawn = << >>]
          /\ width' = Num(box[1])
          /\ height' = Num(box[2])
          /\ IF GridDiverges(grid)
               THEN /\ hung' = TRUE
                    /\ blades' = NoBlades
                    /\ log' = [log EXCEPT !.resizes = @ + 1]
               ELSE /\ hung' = FALSE
                    /\ \E draw \in BladeDraws :
                         blades' = SetupBlades(grid, config,
                                               [i \in 1..GridCount(grid) |-> draw],
                                               log.bladesMade + 1)
                    /\ log' = [log EXCEPT !.resizes = @ + 1,
                                          !.bladesMade = @ + GridCount(grid)]
  /\ UNCHANGED << typing, config, gusts, time, animationFrame, lastFrameTime, mouse,
                  raf, now, call >>

\* A move handler that also derives the velocity.
MovedWithVelocity(m, at) ==
  [m EXCEPT !.lastMouseX = m.mouseX,
            !.lastMouseY = m.mouseY,
            !.mouseX = Num(at[1]),
            !.mouseY = Num(at[2]),
            !.mouseVelX = FSub[Num(at[1]), m.mouseX],
            !.mouseVelY = FSub[Num(at[2]), m.mouseY]]

\* The pointer fields after mouseMoveHandler(e), e at `at` relative to the
\* container.
Moved(m, at) ==
  [m EXCEPT !.lastMouseX = m.mouseX,
            !.lastMouseY = m.mouseY,
            !.mouseX = Num(at[1]),
            !.mouseY = Num(at[2])]

\* mouseMoveHandler(e), e at `at` relative to the container; at most
\* `limit` events are handled.
MouseMoveWithin(limit) ==
  /\ ~hung
  /\ "mousemove" \in dom.listeners
  /\ dom.pointerInside
  /\ Events < limit
  /\ \E at \in PointerAt : mouse' = Moved(mouse, at)
  /\ log' = [log EXCEPT !.pointerEvents = @ + 1]
  /\ UNCHANGED << typing, config, width, height, blades, gusts, time, animationFrame,
                  lastFrameTime, dom, raf, now, hung, call >>

MouseMove == MouseMoveWithin(MaxEvents)

\* mouseEnterHandler()
MouseEnterWithin(limit) ==
  /\ ~hung
  /\ ~dom.pointerInside
  /\ Events < limit
  /\ dom' = [dom EXCEPT !.pointerInside = TRUE]
  /\ mouse' = IF "mouseenter" \in dom.listeners
                THEN [mouse EXCEPT !.isMouseOver = TRUE]
                ELSE mouse
  /\ log' = [log EXCEPT !.pointerEvents = @ + 1]
  /\ UNCHANGED << typing, config, width, height, blades, gusts, time, animationFrame,
                  lastFrameTime, raf, now, hung, call >>

MouseEnter == MouseEnterWithin(MaxEvents)

\* A leave handler that keeps the smoothed velocity.
LeftMoving(m) == [m EXCEPT !.isMouseOver = FALSE]

\* The pointer fields after mouseLeaveHandler().
Left(m) ==
  [m EXCEPT !.isMouseOver = FALSE,
            !.smoothMouseVelX = Num(0),
            !.smoothMouseVelY = Num(0)]

\* mouseLeaveHandler()
MouseLeaveWithin(limit) ==
  /\ ~hung
  /\ dom.pointerInside
  /\ Events < limit
  /\ dom' = [dom EXCEPT !.pointerInside = FALSE]
  /\ mouse' = IF "mouseleave" \in dom.listeners THEN Left(mouse) ELSE mouse
  /\ log' = [log EXCEPT !.pointerEvents = @ + 1]
  /\ UNCHANGED << typing, config, width, height, blades, gusts, time, animationFrame,
                  lastFrameTime, raf, now, hung, call >>

MouseLeave == MouseLeaveWithin(MaxEvents)

----------------------------------------------------------------------------
(* GrassWindBackground: stop and destroy                                   *)

\* stop() that forgets the handle without cancelling the callback.
Forget == [raf |-> raf, animationFrame |-> 0]

\* stop(): the fields it writes.
Stop ==
  IF animationFrame # 0
    THEN [raf |-> Cancel(raf, animationFrame), animationFrame |-> 0]
    ELSE [raf |-> raf, animationFrame |-> animationFrame]

\* destroy()
Destroy ==
  /\ ~hung
  /\ Events < MaxEvents
  /\ raf' = Stop.raf
  /\ animationFrame' = Stop.animationFrame
  /\ dom' = [dom EXCEPT !.observing = FALSE, !.listeners = {}, !.canvas = FALSE]
  /\ log' = [log EXCEPT !.destroys = @ + 1]
  /\ UNCHANGED << typing, config, width, height, blades, gusts, time, lastFrameTime,
                  mouse, now, hung, call >>

----------------------------------------------------------------------------

Next ==
  \/ Animate
  \/ Resize
  \/ MouseMove
  \/ MouseEnter
  \/ MouseLeave
  \/ Destroy

Spec == Init /\ [][Next]_vars

----------------------------------------------------------------------------
(* The classes on their own: an instance whose loop is not running, and    *)
(* direct calls of the methods of Gust and GrassBlade and of smoothNoise   *)

\* The fields the direct calls leave alone.
loop == << width, height, time, animationFrame, lastFrameTime, mouse, dom,
           raf, hung, typing >>

\* An instance with configuration cfg over a w by h container, its loop
\* stopped and its canvas detached.
Idle(cfg, w, h) ==
  /\ config = cfg
  /\ width = Num(w)
  /\ height = Num(h)
  /\ time = Num(0)
  /\ animationFrame = 0
  /\ lastFrameTime = Num(0)
  /\ mouse = MouseInit
  /\ dom = [ box |-> <<w, h>>, canvas |-> FALSE, listeners |-> {},
             observing |-> FALSE, pointerInside |-> FALSE, drawn |-> << >> ]
  /\ raf = [queue |-> {}, next |-> 1, clock |-> 0]
  /\ hung = FALSE
  /\ log = LogInit
  /\ call = NoCall

\* The same on a page without a typewriter.
Bench(cfg, w, h) == Idle(cfg, w, h) /\ typing = NoTypewriter

----------------------------------------------------------------------------
(* Gust on its own                                                         *)

\* Date.now() runs from 0 to MaxAge, in ms.
MaxAge == 12

\* The gusts explored: the options, the container's box and the draws of
\* the update that spawns the gust (interior at the centre, or at the
\* right edge), for three directions.
GustSetups ==
  { [options |-> o, box |-> b, d |-> << Fin(0), at[1], at[2], Dec(1, 2), dir >>] :
      o \in { [gustRadius |-> Num(4), gustDuration |-> Num(10)],
              [gustRadius |-> Num(0), gustDuration |-> Num(10)],
              [gustRadius |-> Num(4), gustDuration |-> Num(0)] },
      b \in { <<2, 2>> },
      at \in { << Fin(999), Dec(1, 2) >>, << Fin(0), Dec(3, 10) >> },
      dir \in { Fin(0), Dec(1, 8), Dec(6, 10) } }
  \cup
  { [options |-> [gustRadius |-> Num(50), gustDuration |-> Num(10)],
     box |-> <<200, 200>>,
     d |-> << Fin(0), Fin(999), Dec(1, 2), Dec(1, 2), Dec(1, 8) >>] }

\* Where getForce is asked, as offsets from the gust's origin, in pixels.
QueryOffsets ==
  { <<0, 0>>, <<1, 0>>, <<0, -2>>, <<4, 0>>, <<3, 4>>, <<5, 0>>,
    <<-10, 0>>, <<50, 0>>, <<0, 51>>, <<100, 100>> }

InitGust ==
  \E s \in GustSetups :
    LET cfg == Merge(DEFAULTS, s.options)
    IN /\ Bench(cfg, s.box[1], s.box[2])
       /\ blades = NoBlades
       /\ now = 0
       /\ gusts = SpawnGusts(s.d, cfg, Num(s.box[1]), Num(s.box[2]), 0)

\* gust.getForce(x, y), called when Date.now() = at.
GetForce ==
  /\ \E at \in now..MaxAge, off \in QueryOffsets :
       LET x == FAdd[gusts[1].x, Num(off[1])]
           y == FAdd[gusts[1].y, Num(off[2])]
       IN /\ now' = at
          /\ call' = [ fn |-> "getForce", x |-> x, y |-> y, at |-> at,
                       result |-> GustGetForce(gusts[1], config, x, y, at) ]
  /\ UNCHANGED << config, blades, gusts, log, loop >>

\* gust.isAlive(), called when Date.now() = at.
IsAlive ==
  /\ \E at \in now..MaxAge :
       /\ now' = at
       /\ call' = [ fn |-> "isAlive", at |-> at,
                    result |-> GustIsAlive(gusts[1], at) ]
  /\ UNCHANGED << config, blades, gusts, log, loop >>

NextGust ==
  \/ GetForce
  \/ IsAlive

SpecGust == InitGust /\ [][NextGust]_vars

----------------------------------------------------------------------------
(* smoothNoise on its own                                                  *)

\* The samples explored: positions, scales and seeds.
NoiseAt == { Num(0), Dec(1, 2), Fin(10250), Fin(333333) }
NoiseScales == { Dec(3, 1000), Num(1), Dec(1, 3) }
NoiseSeeds == { Num(0), Fin(16667), Fin(1234567) }

InitNoise ==
  /\ Bench(DEFAULTS, 2, 2)
  /\ blades = NoBlades
  /\ gusts = << >>
  /\ now = 0

\* smoothNoise(x, y, scale, seed)
SampleNoise ==
  /\ call = NoCall
  /\ \E x \in NoiseAt, y \in NoiseAt, scale \in NoiseScales, seed \in NoiseSeeds :
       call' = [ fn |-> "smoothNoise", x |-> x, y |-> y, scale |-> scale,
                 seed |-> seed, result |-> smoothNoise(x, y, scale, seed),
                 calls |-> 1 ]
  /\ UNCHANGED << config, blades, gusts, now, log, loop >>

\* The same call once more, later.
SampleAgain ==
  /\ call.fn = "smoothNoise"
  /\ call.calls = 1
  /\ \E at \in (now + 1)..MaxAge :
       /\ now' = at
       /\ call' = [ fn |-> "smoothNoise", x |-> call.x, y |-> call.y,
                    scale |-> call.scale, seed |-> call.seed,
                    result |-> call.result, calls |-> 2,
                    again |-> smoothNoise(call.x, call.y, call.scale, call.seed) ]
  /\ UNCHANGED << config, blades, gusts, log, loop >>

NextNoise ==
  \/ SampleNoise
  \/ SampleAgain

SpecNoise == InitNoise /\ [][NextNoise]_vars

----------------------------------------------------------------------------
(* GrassBlade on its own                                                   *)

\* update(windX, windY) is called with a wind at most MaxWinds times, and
\* with no wind (0, 0) at most MaxCalm times in a row.
MaxWinds == 2
SettleTicks == 24
MaxCalm == SettleTicks + 1

\* The winds explored.
Winds ==
  { << Num(1), Num(0) >>, << Num(0), Fin(-1500) >>, << Fin(-500), Fin(500) >> }

\* The Math.random() draws of the initial angle.
AngleDraws == { Fin(0), Dec(1, 2), Fin(999) }

\* The configurations explored: the defaults, and the fast physics.
BladeConfigs == { DEFAULTS, Merge(DEFAULTS, SmallOptions) }

InitBlade ==
  \E cfg \in BladeConfigs, random \in AngleDraws :
    /\ Bench(cfg, 2, 2)
    /\ blades = << NewBlade(Num(1), Num(1), cfg.bladeLength.min, cfg, random, 1) >>
    /\ gusts = << >>
    /\ now = 0

\* How many calls in a row had no wind.
Calm == IF call.fn = "update" THEN call.calm ELSE 0

\* blade.update(windX, windY) with a wind.
BladeWindy ==
  /\ log.updates < MaxWinds
  /\ \E w \in Winds :
       /\ blades' = << BladeUpdate(blades[1], config, w[1], w[2]) >>
       /\ call' = [ fn |-> "update", windX |-> w[1], windY |-> w[2],
                    before |-> blades[1], calm |-> 0 ]
  /\ log' = [log EXCEPT !.updates = @ + 1]
  /\ UNCHANGED << config, gusts, now, loop >>

\* blade.update(0, 0)
BladeCalm ==
  /\ Calm < MaxCalm
  /\ blades' = << BladeUpdate(blades[1], config, Num(0), Num(0)) >>
  /\ call' = [ fn |-> "update", windX |-> Num(0), windY |-> Num(0),
               before |-> blades[1], calm |-> Calm + 1 ]
  /\ UNCHANGED << config, gusts, now, log, loop >>

NextBlade ==
  \/ BladeWindy
  \/ BladeCalm

SpecBlade == InitBlade /\ [][NextBlade]_vars

----------------------------------------------------------------------------
(* The layout: construction and resizes over every geometry                *)

\* The grid options explored: two blades per cell, and no columns.
LayoutOptions ==
  { SmallOptions,
    Merge(SmallOptions, [bladesPerCell |-> Num(2)]),
    Merge(SmallOptions, [gridColumnsMobile |-> Num(0)]),
    Merge(SmallOptions, [gridColumnsDesktop |-> Num(0)]) }

LayoutConstructions ==
  { Construction(options, FALSE, box) : options \in LayoutOptions, box \in Boxes }

InitLayout == Construct(LayoutConstructions)

NextLayout ==
  \/ Resize
  \/ Animate

SpecLayout == InitLayout /\ [][NextLayout]_vars

----------------------------------------------------------------------------
(* The whole instance under further options                                *)

\* The userOptions explored: a reducedMotion of the caller's own, gusts
\* that live 2 ms, no gusts and no ambient wind at all, and no gusts on a
\* page that prefers reduced motion.
OptionConstructions ==
  { Construction(Merge(SmallOptions, options), FALSE, <<2, 2>>) :
      options \in { [reducedMotion |-> TRUE],
                    [gustDuration |-> Num(2)],
                    [gustFrequency |-> Num(0), fieldStrength |-> Num(0)] } }
  \cup
  { Construction(Merge(SmallOptions, [gustFrequency |-> Num(0)]), TRUE, <<2, 2>>) }

InitOptions == Construct(OptionConstructions)

SpecOptions == InitOptions /\ [][Next]_vars

\* The frame loop watched from outside: every callback records whether it
\* processed its frame, when the last processed frame ran, and where the
\* pointer was at this processed frame and at the one before, which gusts
\* there were before the frame and what Date.now() was at its reaping.  At most
\* MaxTicks callbacks run, and none after MaxFrames processed frames.
MaxTicks == 4

NoTick ==
  [ fn |-> "animate", processed |-> FALSE, processedAt |-> 0, since |-> 0,
    ticks |-> 0, at |-> <<Num(0), Num(0)>>, prev |-> <<Num(0), Num(0)>>,
    active |-> FALSE, before |-> << >>, reapedAt |-> 0 ]

LastTick == IF call.fn = "animate" THEN call ELSE NoTick

Tick ==
  /\ log.updates < MaxFrames
  /\ AnimateFrame(MaxTicks)
  /\ call' = IF log'.updates = log.updates
               THEN [LastTick EXCEPT !.processed = FALSE]
               ELSE [ fn |-> "animate",
                      processed |-> TRUE,
                      processedAt |-> raf'.clock,
                      since |-> raf'.clock - LastTick.processedAt,
                      ticks |-> LastTick.ticks + 1,
                      at |-> <<mouse.mouseX, mouse.mouseY>>,
                      prev |-> LastTick.at,
                      active |-> mouse.isMouseOver,
                      before |-> gusts,
                      reapedAt |-> now + raf'.clock - raf.clock ]

FrameConstructions ==
  { Construction(SmallOptions, FALSE, <<2, 2>>),
    Construction(SmallOptions, TRUE, <<2, 2>>) }

InitFrames == Construct(FrameConstructions)

NextFrames ==
  \/ Tick
  \/ MouseEnter
  \/ MouseMove
  \/ MouseLeave

SpecFrames == InitFrames /\ [][NextFrames]_vars

\* The frame loop driven by hand: start() and stop() called directly on a
\* running instance, between its frames and around destroy().
MaxCalls == 3

\* The direct calls made so far.
Calls == IF call.fn \in {"start", "stop"} THEN call.calls ELSE 0

\* start() that requests a frame whether or not one is pending.
StartedAnyway ==
  [raf |-> Request(raf), animationFrame |-> Request(raf).next - 1]

\* start(): the fields it writes.
Started ==
  IF animationFrame = 0
    THEN [raf |-> Request(raf), animationFrame |-> Request(raf).next - 1]
    ELSE [raf |-> raf, animationFrame |-> animationFrame]

\* instance.start()
Start ==
  /\ ~hung
  /\ Calls < MaxCalls
  /\ raf' = Started.raf
  /\ animationFrame' = Started.animationFrame
  /\ call' = [ fn |-> "start", calls |-> Calls + 1,
               pending |-> Cardinality(raf.queue) ]
  /\ UNCHANGED << typing, config, width, height, blades, gusts, time, lastFrameTime,
                  mouse, dom, now, hung, log >>

\* instance.stop()
StopCall ==
  /\ ~hung
  /\ Calls < MaxCalls
  /\ raf' = Stop.raf
  /\ animationFrame' = Stop.animationFrame
  /\ call' = [ fn |-> "stop", calls |-> Calls + 1,
               pending |-> Cardinality(raf.queue) ]
  /\ UNCHANGED << typing, config, width, height, blades, gusts, time, lastFrameTime,
                  mouse, dom, now, hung, log >>

LoopConstructions ==
  { Construction(SmallOptions, FALSE, <<2, 2>>),
    Construction(SmallOptions, TRUE, <<2, 2>>) }

InitLoop == Construct(LoopConstructions)

NextLoop ==
  \/ Animate
  \/ Start
  \/ StopCall
  \/ Destroy

SpecLoop == InitLoop /\ [][NextLoop]_vars

\* The time accumulator watched over frames, resizes and pointer events,
\* with a field that runs at half speed, on a page that prefers reduced
\* motion and on one that does not.
TimeConstructions ==
  { Construction(Merge(SmallOptions, [fieldSpeed |-> Dec(1, 2)]), prefers, <<2, 2>>) :
      prefers \in BOOLEAN }

InitTime == Construct(TimeConstructions)

NextTime ==
  \/ Tick
  \/ Resize
  \/ MouseEnter
  \/ MouseMove

SpecTime == InitTime /\ [][NextTime]_vars

\* The pointer watched over more events: it enters, moves, leaves and
\* comes back while the frames run.
MaxPointerEvents == 4

PointerEnter == MouseEnterWithin(MaxPointerEvents)

PointerMove == MouseMoveWithin(MaxPointerEvents)

PointerLeave == MouseLeaveWithin(MaxPointerEvents)

PointerConstructions == { Construction(SmallOptions, FALSE, <<2, 2>>) }

InitPointer == Construct(PointerConstructions)

NextPointer ==
  \/ Tick
  \/ PointerEnter
  \/ PointerMove
  \/ PointerLeave

SpecPointer == InitPointer /\ [][NextPointer]_vars

\* The wind asked for directly, once, on a running instance: the call
\* records what it was asked, what the instance held then, and its answer for
\* the gusts as stored and for the same gusts stored in reverse order.
QueryPoints == { <<0, 0>>, <<1, 1>>, <<2, 1>> }

Reverse(gs) == [ i \in 1..Len(gs) |-> gs[Len(gs) + 1 - i] ]

GetWind ==
  /\ ~hung
  /\ call.fn = "GrassWindBackground"
  /\ \E p \in QueryPoints :
       call' = [ fn |-> "getWindForce", x |-> Num(p[1]), y |-> Num(p[2]),
                 time |-> time, gusts |-> gusts, mouse |-> mouse, at |-> now,
                 wind |-> GetWindForce(config, time, gusts, mouse,
                                       Num(p[1]), Num(p[2]), now),
                 reversed |-> GetWindForce(config, time, Reverse(gusts), mouse,
                                           Num(p[1]), Num(p[2]), now) ]
  /\ UNCHANGED << typing, config, width, height, blades, gusts, time, animationFrame,
                  lastFrameTime, mouse, dom, raf, now, hung, log >>

WindConstructions == { Construction(SmallOptions, FALSE, <<2, 2>>) }

InitWind == Construct(WindConstructions)

NextWind ==
  \/ Animate
  \/ MouseEnter
  \/ MouseMove
  \/ MouseLeave
  \/ GetWind

SpecWind == InitWind /\ [][NextWind]_vars

----------------------------------------------------------------------------
(* The typewriter of the landing page                                      *)

\* str.substring(indexStart, indexEnd) of a string kept as the sequence of
\* its characters: both indices are clamped to the string and swapped when
\* out of order.
substring(str, indexStart, indexEnd) ==
  LET start == IF indexStart < 0 THEN 0
               ELSE IF indexStart > Len(str) THEN Len(str) ELSE indexStart
      end == IF indexEnd < 0 THEN 0
             ELSE IF indexEnd > Len(str) THEN Len(str) ELSE indexEnd
  IN IF start <= end THEN SubSeq(str, start + 1, end)
                     ELSE SubSeq(str, end + 1, start)

\* A typewriter that starts the same word again.
SameWord(wordIndex, length) == wordIndex

\* (wordIndex + 1) % words.length
NextWord(wordIndex, length) == (wordIndex + 1) % length

\* createTypewriter(element, words, startDelay) on an element that shows
\* `text`: the closure variables and the first timer.
createTypewriter(text, words, startDelay) ==
  [ words |-> words, wordIndex |-> 0, isDeleting |-> FALSE,
    currentText |-> << >>, charIndex |-> 0, textContent |-> text,
    timeout |-> startDelay, started |-> FALSE ]

\* typeWriter(): the closure variables, the element's text and the timer
\* after one call.
typeWriter(t) ==
  LET currentWord == t.words[t.wordIndex + 1]
  IN IF t.isDeleting
       THEN LET currentText == substring(currentWord, 0, t.charIndex - 1)
                charIndex == t.charIndex - 1
            IN IF charIndex = 0
                 THEN [t EXCEPT !.currentText = currentText,
                                !.charIndex = charIndex,
                                !.isDeleting = FALSE,
                                !.wordIndex = NextWord(t.wordIndex, Len(t.words)),
                                !.timeout = 200,
                                !.textContent = currentText,
                                !.started = TRUE]
                 ELSE [t EXCEPT !.currentText = currentText,
                                !.charIndex = charIndex,
                                !.textContent = currentText,
                                !.timeout = 100,
                                !.started = TRUE]
       ELSE LET currentText == substring(currentWord, 0, t.charIndex + 1)
                charIndex == t.charIndex + 1
            IN IF charIndex = Len(currentWord)
                 THEN [t EXCEPT !.currentText = currentText,
                                !.charIndex = charIndex,
                                !.isDeleting = TRUE,
                                !.timeout = 2000,
                                !.textContent = currentText,
                                !.started = TRUE]
                 ELSE [t EXCEPT !.currentText = currentText,
                                !.charIndex = charIndex,
                                !.textContent = currentText,
                                !.timeout = 150,
                                !.started = TRUE]

\* The fields of the grass instance, which the typewriter leaves alone.
instance == << config, width, height, blades, gusts, time, animationFrame,
               lastFrameTime, mouse, dom, raf, now, hung, log, call >>

\* The word lists explored: those of TYPEWRITER_CONFIG (letters without
\* their accents), and every list of
\* one to MaxWords words out of a small vocabulary, with repeated words and
\* words that are prefixes of one another.
MaxWords == 3

Vocabulary == { <<"a">>, <<"a", "b">>, <<"b", "a", "b">> }

RECURSIVE Lists(_)
Lists(n) ==
  IF n = 0 THEN { << >> }
  ELSE { Append(list, word) : list \in Lists(n - 1), word \in Vocabulary }

WordLists ==
  { << <<"p", "o", "r">>, <<"p", "a", "r", "a">> >>,
    << <<"e", "s", "c", "r", "i", "t", "u", "r", "a">>,
       <<"l", "o", "g", "i", "c", "a">> >> }
  \cup UNION { Lists(n) : n \in 1..MaxWords }

\* The start delays of TYPEWRITER_CONFIG.
StartDelays == { 0, 500 }

InitTypewriter ==
  \E words \in WordLists, startDelay \in StartDelays :
    /\ Idle(DEFAULTS, 0, 0)
    /\ blades = NoBlades
    /\ gusts = << >>
    /\ now = 0
    /\ typing = createTypewriter(words[1], words, startDelay)

\* The pending timer fires: typeWriter() runs.
TypeWriterFires ==
  /\ typing.timeout >= 0
  /\ typing' = typeWriter(typing)
  /\ UNCHANGED instance

NextTypewriter == TypeWriterFires

\* Every timer set with setTimeout fires in the end.
SpecTypewriter ==
  InitTypewriter /\ [][NextTypewriter]_vars /\ WF_vars(TypeWriterFires)

----------------------------------------------------------------------------
(* Properties                                                              *)

\* C1: in every reachable state, right after construction and after any
\* sequence of frames and resizes, every blade's angle is a finite number
\* in [-maxBend, +maxBend].
C1_AngleWithinMaxBend ==
  \A i \in DOMAIN blades :
    /\ blades[i].angle.k = "fin"
    /\ -config.maxBend.v <= blades[i].angle.v
    /\ blades[i].angle.v <= config.maxBend.v

\* An update has left a blade at the limit, still moving outward.
C1_BladeAtLimit ==
  /\ log.updates >= 1
  /\ \E i \in DOMAIN blades :
       \/ blades[i].angle = config.maxBend /\ blades[i].velocity.v > 0
       \/ blades[i].angle = FNeg[config.maxBend] /\ blades[i].velocity.v < 0

\* What destroy() leaves behind.
Destroyed ==
  /\ raf.queue = {}
  /\ animationFrame = 0
  /\ dom.listeners = {}
  /\ ~dom.observing
  /\ ~dom.canvas

\* C2: once destroy() has been called, no frame callback is pending, the
\* listeners and the observer are detached and the canvas is removed; from
\* then on no update or render runs and nothing but the count of destroy()
\* calls and the pointer's whereabouts in the page changes, whatever is
\* called, destroy() again included.
C2_DestroyIsFinal ==
  /\ [](log.destroys >= 1 => Destroyed)
  /\ [][ log.destroys >= 1 =>
           /\ UNCHANGED << config, width, height, blades, gusts, time,
                           animationFrame, lastFrameTime, mouse, raf, now,
                           hung, call >>
           /\ dom' = [dom EXCEPT !.pointerInside = dom'.pointerInside]
           /\ log' = [log EXCEPT !.destroys = log'.destroys,
                                 !.pointerEvents = log'.pointerEvents] ]_vars

\* destroy() has been called twice, after frames have run.
C2_DestroyedTwice ==
  /\ log.destroys = 2
  /\ log.updates >= 1

\* The column count of the width class, the row count and the blades per
\* cell, in whole numbers.
Columns ==
  IF width.v <= config.mobileBreakpoint.v
    THEN config.gridColumnsMobile.v \div Scale
    ELSE config.gridColumnsDesktop.v \div Scale

Rows ==
  IF width.v > 0 /\ Columns > 0
    THEN -((-(height.v * Columns)) \div width.v)
    ELSE 0

PerCell == config.bladesPerCell.v \div Scale

\* Width 0, height 0 or no columns.
Degenerate == width.v = 0 \/ height.v = 0 \/ Columns = 0

\* C3: for every degenerate geometry (container width 0, container height
\* 0, or a column count of 0) setupBlades returns, with an empty blade set.
C3_DegenerateGeometryGivesNoBlades ==
  Degenerate => (~hung /\ blades = NoBlades)

\* setupBlades has entered its row loop for a container of width 0 and
\* positive height, and never leaves it.
C3_RowLoopWithoutEnd ==
  /\ hung
  /\ width.v = 0
  /\ height.v > 0

\* The gust of the calls, and the query's offset from its origin in pixels.
TheGust == gusts[1]
OffX == (call.x.v - TheGust.x.v) \div Scale
OffY == (call.y.v - TheGust.y.v) \div Scale
Age == call.at * Scale - TheGust.birthTime.v
NoForce == Vec(Num(0), Num(0))

\* C4: with a zero gustRadius or a zero gustDuration, a living gust's force
\* is the zero vector at every query point, its own origin included.
C4_ZeroRadiusIsNoInfluence ==
  ( /\ call.fn = "getForce"
    /\ config.gustRadius.v = 0 \/ config.gustDuration.v = 0
    /\ Age < TheGust.duration.v )
  => call.result = NoForce

\* A gust of radius 0 asked at its own origin answers NaN.
C4_NaNAtOrigin ==
  /\ call.fn = "getForce"
  /\ config.gustRadius.v = 0
  /\ OffX = 0 /\ OffY = 0
  /\ Age < TheGust.duration.v
  /\ call.result.x.k = "nan"
  /\ call.result.y.k = "nan"

\* update(0, 0) was the last call.
ZeroWind ==
  /\ call.fn = "update"
  /\ call.windX = Num(0)
  /\ call.windY = Num(0)

ProperGust ==
  /\ config.gustRadius.v > 0
  /\ config.gustDuration.v > 0

\* The query is within the radius.
Within ==
  OffX * OffX + OffY * OffY
    <= (config.gustRadius.v \div Scale) * (config.gustRadius.v \div Scale)

\* The squared magnitude of v is within one percent of that of `of`.
About(v, of) ==
  100 * Abs(v.x.v * v.x.v + v.y.v * v.y.v - of * of) <= of * of

\* C6: at its birth time a gust's force is zero at its origin and at every
\* point within its radius; at its origin, half its duration after birth,
\* the force is gustStrength times the gust's direction, of magnitude
\* gustStrength.
C6_ForceAtOrigin ==
  (call.fn = "getForce" /\ ProperGust) =>
    /\ (Age = 0 /\ Within) => call.result = NoForce
    /\ (OffX = 0 /\ OffY = 0 /\ 2 * Age = TheGust.duration.v) =>
         /\ call.result.x = FMul[TheGust.dirX, config.gustStrength]
         /\ call.result.y = FMul[TheGust.dirY, config.gustStrength]
         /\ About(call.result, config.gustStrength.v)

\* The force has been asked at the origin at mid-life.
C6_AskedAtMidLife ==
  /\ call.fn = "getForce"
  /\ ProperGust
  /\ OffX = 0 /\ OffY = 0
  /\ 2 * Age = TheGust.duration.v
  /\ call.result # NoForce

\* C7: isAlive() is true exactly when now - birthTime < duration.
C7_AliveWhileYoung ==
  call.fn = "isAlive" => (call.result <=> Age < TheGust.duration.v)

\* isAlive() has answered false exactly at birthTime + duration.
C7_DeadAtDuration ==
  /\ call.fn = "isAlive"
  /\ TheGust.duration.v > 0
  /\ Age = TheGust.duration.v
  /\ call.result = FALSE

\* gustStrength x (1 - dist / radius) x envelope, for the call.
Strength ==
  LET dist == FSqrt[Num(OffX * OffX + OffY * OffY)]
      distFalloff == FSub[Num(1), FDiv[dist, config.gustRadius]]
  IN FMul[FMul[config.gustStrength, distFalloff],
          TimeEnvelope(TheGust, call.at)]

\* C8: a gust's force is the zero vector at every point farther from its
\* origin than gustRadius, at every time; within the radius it is the
\* gust's direction times gustStrength x (1 - dist / radius) x envelope,
\* which is between 0 and gustStrength.
C8_ForceWithinRadius ==
  (call.fn = "getForce" /\ ProperGust) =>
    /\ ~Within => call.result = NoForce
    /\ Within =>
         /\ call.result = Vec(FMul[TheGust.dirX, Strength],
                              FMul[TheGust.dirY, Strength])
         /\ 0 <= Strength.v
         /\ Strength.v <= config.gustStrength.v
         /\ Abs(call.result.x.v) <= config.gustStrength.v
         /\ Abs(call.result.y.v) <= config.gustStrength.v

\* A force has been felt strictly between the origin and the radius.
C8_PartialForce ==
  /\ call.fn = "getForce"
  /\ ProperGust
  /\ Within
  /\ OffX * OffX + OffY * OffY > 0
  /\ call.result # NoForce

Centred(i) ==
  LET cell == (i - 1) \div PerCell
      col == cell % Columns
      row == cell \div Columns
  IN /\ blades[i].rootX.v * 2 * Columns = (2 * col + 1) * width.v
     /\ blades[i].rootY.v * 2 * Columns = (2 * row + 1) * width.v

Quiet ==
  /\ config.gustFrequency = Num(0)
  /\ config.fieldStrength = Num(0)
  /\ log.pointerEvents = 0

\* C11: constructed with gustFrequency = 0 and fieldStrength = 0 and with
\* the pointer never active, after any number of ticks no gust exists,
\* every blade's angle is within [-maxBend, maxBend] and every blade's
\* velocity is 0, and no tick increases a blade's |velocity|.
C11_QuietStaysQuiet ==
  /\ [](Quiet =>
          /\ gusts = << >>
          /\ \A i \in DOMAIN blades :
               /\ blades[i].angle.k = "fin"
               /\ Abs(blades[i].angle.v) <= config.maxBend.v
               /\ blades[i].velocity = Num(0))
  /\ [][ (Quiet /\ log'.updates > log.updates) =>
           /\ Len(blades') = Len(blades)
           /\ \A i \in DOMAIN blades :
                Abs(blades'[i].velocity.v) <= Abs(blades[i].velocity.v) ]_vars

\* Two ticks have run over a bent blade in the quiet scenario.
C11_QuietTicks ==
  /\ Quiet
  /\ log.updates >= 2
  /\ \E i \in DOMAIN blades : blades[i].angle.v # 0

\* The value the merge gives an option: the user's when given, else the
\* default.
Given(key) ==
  IF key \in DOMAIN call.options THEN call.options[key] ELSE DEFAULTS[key]

\* C12 (amended): every configuration field but reducedMotion holds the
\* user-supplied value when given and the default otherwise; reducedMotion
\* holds the page's prefers-reduced-motion, whatever the user supplied; and
\* no step after construction changes any configuration field.
C12_ConfigurationIsFixed ==
  /\ [](call.fn = "GrassWindBackground" =>
          /\ DOMAIN config = DOMAIN DEFAULTS \cup DOMAIN call.options
          /\ \A key \in DOMAIN config \ {"reducedMotion"} :
               config[key] = Given(key)
          /\ config.reducedMotion = call.prefersReducedMotion)
  /\ [][config' = config]_vars

\* A tick, a resize and a destroy() have run over a configuration with a
\* user-supplied gustDuration.
C12_AfterEveryOperation ==
  /\ call.fn = "GrassWindBackground"
  /\ "gustDuration" \in DOMAIN call.options
  /\ config.gustDuration = Num(2)
  /\ log.updates >= 1
  /\ log.resizes >= 1
  /\ log.destroys >= 1

\* C12 as stated: every configuration field, reducedMotion included, holds
\* the user-supplied value when given and the default otherwise.
C12_EveryKeyIsTheUsers ==
  call.fn = "GrassWindBackground" =>
    \A key \in DOMAIN config : config[key] = Given(key)

\* A step of the frame callback that processed its frame.
Processed == log'.updates = log.updates + 1

\* Date.now() during the spawn trial and the reaping of the frame.
ReapedAt == now + raf'.clock - raf.clock

\* The deltaTime of the frame.
FrameDelta ==
  IF lastFrameTime = Num(0) THEN Num(0)
  ELSE FSub[Num(raf'.clock), lastFrameTime]

\* C13: a processed frame advances the global time, smooths the pointer
\* velocity, tries to spawn a gust and removes the dead ones, then every
\* blade samples the wind once, from the new time, the new pointer velocity
\* and the gusts left after the spawn and the reaping, and updates once;
\* the canvas then shows the updated blades.
C13_FrameStepsInOrder ==
  [][Processed =>
       /\ time' = FAdd[time, FMul[config.fieldSpeed, FrameDelta]]
       /\ mouse' = SmoothMouse(mouse, config)
       /\ Len(gusts') <= Len(gusts) + 1
       /\ \A i \in 1..Len(gusts') :
            /\ GustIsAlive(gusts'[i], ReapedAt)
            /\ \/ \E j \in 1..Len(gusts) : gusts[j] = gusts'[i]
               \/ gusts'[i].birthTime = Num(ReapedAt)
       /\ blades' = UpdateBlades(blades, config, time', gusts', mouse', now')
       /\ dom'.drawn = Render(blades')
       /\ log'.renders = log.renders + 1]_vars

\* Two frames were processed, the second with a gust spawned in it that
\* pushes a blade, and the canvas shows a bent blade.
C13_GustSeenInItsFrame ==
  /\ log.updates = 2
  /\ log.renders = 2
  /\ Len(gusts) >= 1
  /\ gusts[Len(gusts)].birthTime = Num(now - 1)
  /\ \E i \in 1..Len(blades) :
       /\ blades[i].velocity # Num(0)
       /\ dom.drawn[i].tipX # blades[i].rootX

\* A step of the frame callback, processed or skipped.
Called == log'.frames = log.frames + 1

\* Whole ms from the last processed frame to this callback; the first
\* callback of all finds no timestamp and takes its own time.
Elapsed ==
  IF lastFrameTime = Num(0) THEN 0
  ELSE raf'.clock - lastFrameTime.v \div Scale

\* deltaTime < 1000 / reducedMotionFPS, in whole numbers
TooEarly == Elapsed * (config.reducedMotionFPS.v \div Scale) < 1000

\* C14: under reduced motion a frame callback that comes less than
\* 1000/reducedMotionFPS ms after the last processed frame updates and
\* renders nothing and leaves the timestamp alone, except that the first
\* callback of all sets the timestamp to its own time; a later one processes
\* the frame and takes the timestamp.  Either way exactly one next callback
\* is pending, and two processed frames are never closer than the minimum.
C14_ReducedMotionCapsTheRate ==
  [][(config.reducedMotion /\ Called) =>
       /\ raf'.queue = {animationFrame'}
       /\ animationFrame' \notin raf.queue
       /\ IF TooEarly
            THEN /\ ~Processed
                 /\ log'.renders = log.renders
                 /\ UNCHANGED << time, mouse, gusts, blades, dom >>
                 /\ lastFrameTime' = IF lastFrameTime = Num(0)
                                       THEN Num(raf'.clock)
                                       ELSE lastFrameTime
            ELSE /\ Processed
                 /\ log'.renders = log.renders + 1
                 /\ lastFrameTime' = Num(raf'.clock)
       /\ (call'.processed /\ call'.ticks >= 2) =>
            call'.since * (config.reducedMotionFPS.v \div Scale) >= 1000]_vars

\* Under reduced motion four callbacks ran: two were skipped and two
\* processed their frames, the minimum apart.
C14_TwoSlowFrames ==
  /\ config.reducedMotion
  /\ call.fn = "animate"
  /\ log.frames = 4
  /\ call.ticks = 2
  /\ call.processed
  /\ call.since = 2

\* C14 as stated: a skipped callback never moves the timestamp.
C14_SkippedLeavesTimestamp ==
  [][(config.reducedMotion /\ Called /\ ~Processed) =>
       lastFrameTime' = lastFrameTime]_vars

\* now - birthTime < duration at the reaping of the last processed frame
Young(gust) == call.reapedAt * Scale - gust.birthTime.v < gust.duration.v

\* The gusts from before the last processed frame that were still young at
\* its reaping, in their order.
Survivors == SelectSeq(call.before, Young)

\* C15: after the removal step of a tick the gusts are those from before
\* the tick whose age is below their duration, in their order, followed by
\* the gust spawned in this tick if there is one; no gust whose age has
\* reached its duration is left and no younger one is dropped.
C15_ReapKeepsExactlyTheYoung ==
  (call.fn = "animate" /\ call.processed) =>
    /\ Len(gusts) >= Len(Survivors)
    /\ SubSeq(gusts, 1, Len(Survivors)) = Survivors
    /\ Len(gusts) <= Len(Survivors) + 1
    /\ \A i \in (Len(Survivors) + 1)..Len(gusts) :
         /\ gusts[i].birthTime = Num(call.reapedAt)
         /\ Young(gusts[i])

\* A gust was removed by the tick in which its age reached its duration
\* exactly.
C15_RemovedAtDuration ==
  /\ call.fn = "animate"
  /\ call.processed
  /\ Len(call.before) = 1
  /\ call.reapedAt * Scale - call.before[1].birthTime.v
       = call.before[1].duration.v
  /\ \A i \in 1..Len(gusts) : gusts[i] # call.before[1]

\* The places of the gusts of the next state that the present state lacks.
Spawned == { i \in 1..Len(gusts') : \A j \in 1..Len(gusts) : gusts[j] # gusts'[i] }

\* C16: a processed frame adds at most one gust, born at that frame and
\* put last; with a trial that cannot succeed (gustFrequency 0) it adds
\* none; and no other step (pointer event, resize, destroy, skipped frame)
\* changes the gusts at all.
C16_AtMostOneGustPerFrame ==
  [][/\ Len(gusts') <= Len(gusts) + 1
     /\ Cardinality(Spawned) <= 1
     /\ \A i \in Spawned : /\ i = Len(gusts')
                            /\ gusts'[i].birthTime = Num(ReapedAt)
                            /\ Processed
     /\ ~Processed => gusts' = gusts
     /\ config.gustFrequency = Num(0) => gusts' = << >>]_vars

\* Two frames each added one gust, with an event in between.
C16_OneGustInEachFrame ==
  /\ log.updates = 2
  /\ Len(gusts) = 2
  /\ gusts[1].birthTime # gusts[2].birthTime
  /\ Events >= 1

\* The magnitude of the wind of the last update.
WindMagnitude ==
  FSqrt[FAdd[FMul[call.windX, call.windX], FMul[call.windY, call.windY]]]

\* sin(windAngle - angle) x windMagnitude x stiffness for the last update
Torque ==
  FMul[FMul[FSin[FSub[FAtan2[call.windX, FNeg[call.windY]], call.before.angle]],
            WindMagnitude],
       config.stiffness]

\* The velocity of the last update after its torque and its damping.
Damped ==
  FMul[IF WindMagnitude.v > 1 THEN FAdd[call.before.velocity, Torque]
                              ELSE call.before.velocity,
       config.damping]

\* C17: one blade update adds the torque to the velocity when the wind
\* magnitude is above 0.001, then multiplies the velocity by damping, then
\* adds the velocity to the angle, then clamps the angle to
\* [-maxBend, +maxBend]; the clamp leaves the velocity as the damping left
\* it.
C17_BladeStepInOrder ==
  call.fn = "update" =>
    /\ blades[1].velocity = Damped
    /\ LET angle == FAdd[call.before.angle, Damped]
       IN blades[1].angle =
            IF angle.v > config.maxBend.v THEN config.maxBend
            ELSE IF angle.v < -config.maxBend.v THEN FNeg[config.maxBend]
            ELSE angle

\* A wind pushed the blade past its limit: the angle stopped at maxBend and
\* the velocity that took it there is still in the blade.
C17_StoppedWithVelocity ==
  /\ call.fn = "update"
  /\ WindMagnitude.v > 1
  /\ Torque.v # 0
  /\ config.damping.v < Scale
  /\ blades[1].angle = config.maxBend
  /\ call.before.angle.v + blades[1].velocity.v > config.maxBend.v
  /\ blades[1].velocity.v > 0

\* The last processed frame found the pointer over the container, and a
\* processed frame came before it.
ActiveTick ==
  /\ call.fn = "animate"
  /\ call.processed
  /\ call.active
  /\ call.ticks >= 2

\* C18: on a tick with the pointer active the raw pointer velocity is the
\* pointer's position at this tick minus its position at the previous
\* tick.
C18_VelocityIsFrameDisplacement ==
  ActiveTick =>
    /\ mouse.mouseVelX = FSub[call.at[1], call.prev[1]]
    /\ mouse.mouseVelY = FSub[call.at[2], call.prev[2]]

\* The pointer did not move between two ticks, and the second tick took
\* the displacement of the last move event, before the first tick, as its
\* raw velocity.
C18_StaleVelocity ==
  /\ ActiveTick
  /\ call.at = call.prev
  /\ mouse.mouseVelX # Num(0)
  /\ mouse.mouseVelX = FSub[mouse.mouseX, mouse.lastMouseX]

\* The distance from the pointer to the point the wind was asked at.
PointerDist ==
  FSqrt[FAdd[FMul[FSub[call.x, call.mouse.mouseX], FSub[call.x, call.mouse.mouseX]],
             FMul[FSub[call.y, call.mouse.mouseY], FSub[call.y, call.mouse.mouseY]]]]

\* The pointer is over the container and within mouseRadius of the point.
PointerNear ==
  /\ call.mouse.isMouseOver
  /\ PointerDist.v < config.mouseRadius.v

\* smoothed velocity x (1 - dist/mouseRadius) x mouseStrength
PointerTerm ==
  Let(FMul[FSub[Num(1), FDiv[PointerDist, config.mouseRadius]],
           config.mouseStrength], LAMBDA mouseForce :
  Vec(FMul[call.mouse.smoothMouseVelX, mouseForce],
      FMul[call.mouse.smoothMouseVelY, mouseForce]))

RECURSIVE GustTotal(_)
\* The forces of the first n gusts of the call at its point, added up from
\* the last to the first.
GustTotal(n) ==
  IF n = 0 THEN Vec(Num(0), Num(0))
  ELSE Let(GustGetForce(call.gusts[n], config, call.x, call.y, call.at),
           LAMBDA force :
       Let(GustTotal(n - 1), LAMBDA rest :
       Vec(FAdd[force.x, rest.x], FAdd[force.y, rest.y])))

\* The ambient vector, plus every gust's force, plus the pointer term when
\* the pointer is near.
PlainSum ==
  Let(NoiseWind(config, call.time, call.x, call.y), LAMBDA ambient :
  Let(GustTotal(Len(call.gusts)), LAMBDA gusty :
  Let(IF PointerNear THEN PointerTerm ELSE Vec(Num(0), Num(0)), LAMBDA pointer :
  Vec(FAdd[FAdd[ambient.x, gusty.x], pointer.x],
      FAdd[FAdd[ambient.y, gusty.y], pointer.y]))))

\* C19: the wind at a point is the plain sum of the ambient vector, the
\* force of every stored gust and, when the pointer is over the container
\* and within mouseRadius of the point, the pointer term; the order of the
\* stored gusts does not matter.
C19_WindIsPlainSum ==
  call.fn = "getWindForce" =>
    /\ call.wind = PlainSum
    /\ call.reversed = call.wind

\* The wind was asked for at the very place of a moving pointer, with a
\* gust around, and the answer lacks the pointer term at its full strength.
C19_NoPointerWindAtThePointer ==
  /\ call.fn = "getWindForce"
  /\ PointerNear
  /\ PointerDist = Num(0)
  /\ PointerTerm.x # Num(0)
  /\ Len(call.gusts) >= 1
  /\ call.wind.x = FSub[PlainSum.x, PointerTerm.x]

\* A step of the pointer-move handler: a pointer event that is neither an
\* enter nor a leave.
PointerMoved ==
  /\ log'.pointerEvents = log.pointerEvents + 1
  /\ dom'.pointerInside = dom.pointerInside

\* C20: a pointer-move event writes the previous position (the position
\* before the event) and the current position and nothing else: the raw
\* and smoothed velocity, the active flag, the time accumulator, the gusts,
\* the blades and the frame loop stay as they were.
C20_MoveWritesPositionOnly ==
  [][PointerMoved =>
       /\ mouse'.lastMouseX = mouse.mouseX
       /\ mouse'.lastMouseY = mouse.mouseY
       /\ mouse' = [mouse EXCEPT !.lastMouseX = mouse'.lastMouseX,
                                 !.lastMouseY = mouse'.lastMouseY,
                                 !.mouseX = mouse'.mouseX,
                                 !.mouseY = mouse'.mouseY]
       /\ UNCHANGED << time, gusts, blades, lastFrameTime, animationFrame,
                       raf, config, width, height >>]_vars

\* A move event arrived after a processed frame and before the next: the
\* position is new and the velocities are still those of that frame.
C20_MovedBetweenTicks ==
  /\ mouse.isMouseOver
  /\ log.updates = 1
  /\ log.frames = 1
  /\ mouse.mouseX = Num(2)
  /\ mouse.lastMouseX = Num(0)
  /\ mouse.mouseVelX = Num(0)
  /\ mouse.smoothMouseVelX = Num(0)

\* The smoothed pointer velocity is zero.
Still ==
  /\ mouse.smoothMouseVelX = Num(0)
  /\ mouse.smoothMouseVelY = Num(0)

\* C21: the leave handler makes the pointer inactive and its smoothed
\* velocity zero; only the enter handler makes it active again; and while
\* it is inactive the smoothed velocity is zero after any number of ticks
\* and the pointer adds nothing to the wind at any point.
C21_InactivePointerIsStill ==
  /\ [](~mouse.isMouseOver =>
          /\ Still
          /\ \A p \in QueryPoints :
               MouseWind(mouse, config, Num(p[1]), Num(p[2])) = Vec(Num(0), Num(0)))
  /\ [][(dom.pointerInside /\ ~dom'.pointerInside) =>
          (~mouse'.isMouseOver /\ Still')]_vars
  /\ [][(~mouse.isMouseOver /\ mouse'.isMouseOver) =>
          (~dom.pointerInside /\ dom'.pointerInside)]_vars

\* The pointer moved and a tick smoothed its velocity; then it left, and a
\* tick ran with the pointer inactive: the raw velocity is still that of the
\* move and the smoothed velocity is zero.
C21_TickAfterLeave ==
  /\ call.fn = "animate"
  /\ call.ticks = 2
  /\ ~call.active
  /\ ~mouse.isMouseOver
  /\ mouse.mouseVelX # Num(0)
  /\ Still

\* A step of the resize observer's callback.
Resized == log'.resizes = log.resizes + 1

\* The wind blade i of the present state meets in the frame of this step.
WindOn(i) ==
  GetWindForce(config, time', gusts', mouse', blades[i].rootX, blades[i].rootY, now')

\* C22: between resizes the blades stay the same objects with the same
\* roots and lengths; a processed frame changes each blade by exactly one
\* update with the wind at its root, and every other step (pointer events,
\* skipped frames, destroy) leaves all blades as they are.
C22_OnlyTheUpdateWritesBlades ==
  [][~Resized =>
       IF Processed
         THEN /\ Len(blades') = Len(blades)
              /\ \A i \in 1..Len(blades) :
                   /\ blades'[i].id = blades[i].id
                   /\ blades'[i].rootX = blades[i].rootX
                   /\ blades'[i].rootY = blades[i].rootY
                   /\ blades'[i].length = blades[i].length
                   /\ Let(WindOn(i), LAMBDA wind :
                        blades'[i] = BladeUpdate(blades[i], config, wind.x, wind.y))
         ELSE blades' = blades]_vars

\* Under reduced motion one callback was skipped and one processed, the
\* pointer came in and the instance was destroyed: the blade has moved once.
C22_MovedByOneFrame ==
  /\ config.reducedMotion
  /\ log.frames = 2
  /\ log.updates = 1
  /\ log.pointerEvents = 1
  /\ log.destroys = 1
  /\ Len(blades) >= 1
  /\ blades[1].velocity # Num(0)

\* Whole ms from the previous processed frame to this one; the first
\* processed frame counts from the timestamp the first callback left.
SincePrevious ==
  IF LastTick.processedAt > 0 THEN raf'.clock - LastTick.processedAt
  ELSE IF lastFrameTime = Num(0) THEN 0
  ELSE raf'.clock - lastFrameTime.v \div Scale

\* C23: the time accumulator is 0 until the first processed frame, never
\* decreases, is left alone by every step that is not a processed frame
\* (resize, pointer events, skipped frames), and grows on a processed frame
\* by fieldSpeed times the ms elapsed since the previous processed frame.
C23_TimeOnlyGrowsWithFrames ==
  /\ [](log.updates = 0 => time = Num(0))
  /\ [][/\ time'.k = "fin"
        /\ time'.v >= time.v
        /\ ~Processed => time' = time
        /\ Processed =>
             time' = FAdd[time, FMul[config.fieldSpeed, Num(SincePrevious)]]]_vars

\* Under reduced motion two frames were processed 2 ms apart with skipped
\* callbacks and a resize around them, and the time has grown.
C23_TimeAfterSlowFrames ==
  /\ config.reducedMotion
  /\ call.fn = "animate"
  /\ call.ticks = 2
  /\ call.since = 2
  /\ log.frames = 4
  /\ log.resizes >= 1
  /\ time.v >= Scale

\* The loop has not been stopped: no destroy() yet, and the last direct
\* call was not stop().
Running == log.destroys = 0 /\ call.fn # "stop"

\* C24: at most one frame callback is pending, the one whose handle the
\* instance holds; while the loop has not been stopped or destroyed exactly
\* one is pending; start() with a callback pending requests nothing; and
\* every run of animate, processed or skipped, consumes its callback and
\* requests exactly one new one.
C24_OneCallbackPending ==
  /\ [](/\ Cardinality(raf.queue) <= 1
        /\ animationFrame # 0 => raf.queue = {animationFrame}
        /\ animationFrame = 0 => raf.queue = {}
        /\ Running => Cardinality(raf.queue) = 1)
  /\ [][(call'.fn = "start" /\ call' # call /\ raf.queue # {}) =>
          (raf' = raf /\ animationFrame' = animationFrame)]_vars
  /\ [][Called =>
          /\ raf'.queue = {animationFrame'}
          /\ animationFrame' \notin raf.queue
          /\ raf'.next = raf.next + 1]_vars

\* start() was called with a callback pending, after a frame had run, and
\* one callback is pending still.
C24_StartWhilePending ==
  /\ call.fn = "start"
  /\ call.pending = 1
  /\ log.frames >= 1
  /\ log.destroys = 0
  /\ Cardinality(raf.queue) = 1

\* The gust was asked for its force when its age had reached its duration.
Expired ==
  /\ call.fn = "getForce"
  /\ Age >= TheGust.duration.v

\* C25: a gust whose age has reached or passed its duration answers the
\* zero vector at every query point.
C25_ExpiredGustGivesNoForce == Expired => call.result = NoForce

\* An expired gust of radius 0 and duration 10, asked at its own origin,
\* answers NaN.
C25_NaNFromExpiredGust ==
  /\ Expired
  /\ config.gustRadius.v = 0
  /\ TheGust.duration.v > 0
  /\ OffX = 0 /\ OffY = 0
  /\ call.result.x.k = "nan"

\* The word the typewriter is at.
CurrentWord == typing.words[typing.wordIndex + 1]

\* The first n characters of the word the typewriter is at.
Typed(n) == SubSeq(CurrentWord, 1, n)

====
